---- MODULE Spec2Model ----
(***************************************************************************)
(* A model of the asynchronous core of xray-analyzer:                      *)
(*   - JobQueue (src/app.py): bounded queue, one worker thread, result     *)
(*     table, in-progress set, polled by request threads;                  *)
(*   - RateLimiter (src/app.py): per-client sliding window under a lock;   *)
(*   - StaticProcessor (src/static_processor.py): content-addressed cache. *)
(* app.py starts with gevent's monkey.patch_all(): the worker thread and   *)
(* the request handlers around JobQueue are greenlets of one OS thread and *)
(* change places only where one of them blocks. JobQueue takes no lock     *)
(* around results / processing. RateLimiter and StaticProcessor take locks *)
(* and are modelled with callers that interleave at every statement.       *)
(***************************************************************************)
EXTENDS Integers, Sequences, FiniteSets, TLC

(***************************************************************************)
(* Bounds of the model.                                                    *)
(***************************************************************************)
\* number of job ids handed out by /analyze
MaxJobs == 3
\* largest max_size a JobQueue is constructed with (app.py uses 50)
MaxQueueSize == 2

\* last value of the clock
MaxClock == 3
\* the RateLimiter is constructed with max_requests (app.py uses 20)
max_requests == 2
\* ... and with time_window, in clock ticks (app.py uses 60 seconds)
time_window == 2
\* largest max_cache_size a StaticProcessor is constructed with, in bytes
\* (the default is 1024 MB)
MaxCacheSize == 8
\* the retention window of cleanup_old_files, in clock ticks (app.py uses
\* 3600 seconds)
Retention == 1

JobIds == 1..MaxJobs

(***************************************************************************)
(* The threads and clients of the model: two of each, so that every pair   *)
(* of calls can overlap (same client and different clients).               *)
(***************************************************************************)
\* request threads inside get_result
Pollers == {"p1", "p2"}
\* request threads inside is_allowed
Callers == {"t1", "t2"}
\* client ids (request.remote_addr)
Clients == {"c1", "c2"}
\* threads inside cache_result
Storers == {"s1", "s2"}
\* threads inside get_cached_result
Readers == {"r1"}
NoThread == "none"
NoClient == "none"

VARIABLES
    \* ---- JobQueue (src/app.py:27-86)
    max_size,       \* maxsize of self.queue
    queue,          \* self.queue: sequence of <<job_id, image_path>>
    results,        \* self.results: job_id -> record
    processing,     \* self.processing: set of job ids
    _stop,          \* self._stop
    worker_pc,      \* position of the worker thread in _process_queue
    worker_job,     \* the (job_id, image_path) the worker holds, or NoJob
    uploads,        \* files present in UPLOAD_FOLDER (image paths)
    \* ---- request threads inside get_result
    poll_pc,        \* position of each poller
    poll_job,       \* the job id each poller asks for
    poll_ret,       \* value returned by each poller's last finished call
    \* ---- history of the run (not read by any action's guard)
    poll_ctx,       \* what was true of the id when the poll was called
    next_job,       \* number of job ids handed out so far
    enqueued,       \* job ids in the order add_job accepted them
    dequeued,       \* job ids in the order the worker dequeued them
    outcome,        \* job_id -> what the Analyzer did ("none" before)
    stored,         \* job_id -> terminal status ever stored ("none" before)
    delivered,      \* job ids whose terminal record a poll has returned
    rm_failed,      \* image paths whose os.remove failed
    \* ---- RateLimiter (src/app.py:88-109)
    requests,       \* self.requests: client_id -> list of timestamps
    lock,           \* self.lock: the thread holding it, or NoThread
    clock,          \* time.time()
    rl_pc,          \* position of each request thread in is_allowed
    rl_client,      \* the client_id each thread asks for
    rl_now,         \* each thread's local now (0 outside a call)
    rl_ret,         \* value returned by each thread's last finished call
    \* ---- history of the run (not read by any action's guard)
    admitted,       \* client_id -> times of all admissions, in order
    \* ---- StaticProcessor (src/static_processor.py:11-84)
    files,          \* the cache directory: path -> [data, complete, atime]
    cache_lock,     \* self.cache_lock: the thread holding it, or NoThread
    cr_pc,          \* position of each thread in cache_result
    cr_image,       \* the image each thread stores
    cr_results,     \* the results each thread stores
    cr_ret,         \* value returned by each thread's last finished call
    gc_pc,          \* position of each thread in get_cached_result
    gc_hash,        \* the file_hash each thread looks up
    gc_results,     \* each thread's local results (after json.load)
    gc_ret,         \* value returned by each thread's last finished call
    \* ---- history of the run (not read by any action's guard)
    fresh,          \* hash -> the (image, results) a cache_result call stored
                    \* and returned, no write for the hash begun since
    gc_ctx,         \* each lookup: "clean" (the entry was fresh at the call and
                    \* no write for the hash has begun since), "cold",
                    \* "disturbed" or "failed" (os.utime raised)
    gc_obs,         \* each lookup: seen, the blobs of the hash present at the
                    \* call, and quiet, no blob of the hash written or deleted
                    \* during the call
    \* ---- StaticProcessor._cleanup_old_files (static_processor.py:86-122)
    max_cache_size, \* self.max_cache_size
    ev_pc,          \* position of the cleanup thread
    ev_files,       \* its local files: sequence of <<filepath, size, accessed>>
    total_size,     \* its local total_size
    ev_i,           \* index of the removal loop in ev_files
    \* ---- history of the pass (not read by any action's guard)
    ev_before,      \* the cache directory when the pass began
    ev_removed,     \* the files the pass removed, in order
    ev_failed,      \* the files whose os.remove raised in the pass
    \* ---- cleanup_old_files (src/app.py:175-184) and UPLOAD_FOLDER
    ctime,          \* image path -> os.path.getctime of the file
    jan_pc,         \* position of the cleanup thread
    current_time,   \* its local current_time
    jan_todo,       \* the names of os.listdir its loop has not reached yet
    jan_file,       \* the file its loop is at (0 outside the loop body)
    \* ---- history of the sweep (not read by any action's guard)
    jan_listed,     \* the names os.listdir returned
    jan_removed,    \* the files the sweep removed
    jan_failed,     \* the files on which os.remove raised
    \* ---- request handlers inside analyze (src/app.py:132-164)
    an_pc,          \* position of each request handler in analyze
    an_client,      \* request.remote_addr of the request it serves
    an_upload,      \* what the request carries: no file, an empty filename, a file
    an_resp,        \* status code of the handler's last response (0 before)
    \* ---- history of the run (not read by any action's guard)
    an_log          \* client -> the job ids its requests were answered (200),
                    \* how many of its requests were answered 400 and 503,
                    \* and whether one was answered 429

jqvars == <<max_size, queue, results, processing, _stop, worker_pc, worker_job,
            uploads, poll_pc, poll_job, poll_ret, poll_ctx, next_job, enqueued,
            dequeued, outcome, stored, delivered, rm_failed>>

rlvars == <<requests, lock, clock, rl_pc, rl_client, rl_now, rl_ret, admitted>>

cvars == <<files, cache_lock, cr_pc, cr_image, cr_results, cr_ret, gc_pc,
           gc_hash, gc_results, gc_ret, fresh, gc_ctx, gc_obs>>

evvars == <<max_cache_size, ev_pc, ev_files, total_size, ev_i, ev_before,
            ev_removed, ev_failed>>

janlocals == <<jan_pc, current_time, jan_todo, jan_file, jan_listed, jan_removed,
              jan_failed>>

janvars == <<ctime, janlocals>>

anvars == <<an_pc, an_client, an_upload, an_resp, an_log>>

vars == <<jqvars, rlvars, cvars, evvars, janvars, anvars>>

NoJob == <<0, 0>>
NoRet == [status |-> "none"]
Processing == [status |-> "processing"]
NotFound == [status |-> "not_found"]
KeyError == [raised |-> "KeyError"]

Range(s) == {s[i] : i \in DOMAIN s}

\* the path /analyze saves the upload of job j under (a fresh uuid per upload)
PathOf(j) == j

\* what analyzer.analyze_medical_report returns for an image
AnalysisOf(path) == <<"report", path>>
\* str(e) of the exception the Analyzer raised on an image
ErrorOf(path) == <<"failed", path>>

Completed(path) == [status |-> "completed", results |-> AnalysisOf(path)]
Errored(path) == [status |-> "error", error |-> ErrorOf(path)]

\* dict.pop(key) on a key that is present
DictPop(d, k) == [x \in (DOMAIN d) \ {k} |-> d[x]]
\* d[k] = v
DictSet(d, k, v) == [x \in (DOMAIN d) \cup {k} |-> IF x = k THEN v ELSE d[x]]

(***************************************************************************)
(* JobQueue.__init__: an empty bounded queue, empty tables, worker started *)
(***************************************************************************)
JobQueueInit ==
    /\ max_size \in 1..MaxQueueSize
    /\ queue = <<>>
    /\ results = <<>>
    /\ processing = {}
    /\ _stop = FALSE
    /\ worker_pc = "while"
    /\ worker_job = NoJob
    /\ uploads = {}
    /\ poll_pc = [p \in Pollers |-> "idle"]
    /\ poll_job = [p \in Pollers |-> 0]
    /\ poll_ret = [p \in Pollers |-> NoRet]
    /\ poll_ctx = [p \in Pollers |-> "none"]
    /\ next_job = 0
    /\ enqueued = <<>>
    /\ dequeued = <<>>
    /\ outcome = [j \in JobIds |-> "none"]
    /\ stored = [j \in JobIds |-> "none"]
    /\ delivered = {}
    /\ rm_failed = {}
    /\ ctime = [p \in {PathOf(j) : j \in JobIds} |-> 0]
    /\ jan_pc = "start"
    /\ current_time = 0
    /\ jan_todo = {}
    /\ jan_file = 0
    /\ jan_listed = {}
    /\ jan_removed = {}
    /\ jan_failed = {}

(***************************************************************************)
(* Scheduling under monkey.patch_all() (lines 1-2): a greenlet runs until  *)
(* it blocks. The worker blocks in self.queue.get(timeout=1) (line 59) and *)
(* may block inside the Analyzer (line 64); get_result never blocks.       *)
(***************************************************************************)
\* threads that the operating system preempts between any two statements
WorkerYields_Preemptive == TRUE

\* a queue.get that lets other greenlets run after it has taken the item
WorkerYields_AfterGet == worker_pc \in {"get", "add", "analyze", "exited"}

\* the worker is at a point where another greenlet can run
WorkerYields == worker_pc \in {"get", "analyze", "exited"}

\* request handlers that the operating system preempts inside get_result
PollersIdle_Preemptive == TRUE

\* no request handler is in the middle of get_result
PollersIdle == \A p \in Pollers : poll_pc[p] = "idle"

(***************************************************************************)
(* queue.Queue.put(item, block=False): Full when maxsize items are waiting *)
(***************************************************************************)
QueueFull_OffByOne == Len(queue) > max_size

QueueFull == Len(queue) >= max_size

\* JobQueue.add_job: True and the item appended, or False and nothing changed
AddJobAccepts == ~QueueFull

(***************************************************************************)
(* /analyze, from the saved upload on: save the file, make a job id, call  *)
(* add_job; when add_job returns False the saved file is removed again.    *)
(***************************************************************************)
SaveAndAddJob ==
    /\ WorkerYields
    /\ PollersIdle
    /\ next_job < MaxJobs
    /\ LET j == next_job + 1
           p == PathOf(j)
       IN /\ next_job' = j
          /\ IF AddJobAccepts
                THEN /\ queue' = Append(queue, <<j, p>>)
                     /\ enqueued' = Append(enqueued, j)
                     /\ uploads' = uploads \cup {p}
                     /\ ctime' = [ctime EXCEPT ![p] = clock]
                ELSE /\ UNCHANGED <<queue, enqueued, ctime>>
                     /\ uploads' = uploads \ {p}
    /\ UNCHANGED <<max_size, results, processing, _stop, worker_pc, worker_job,
                   poll_pc, poll_job, poll_ret, poll_ctx, dequeued, outcome,
                   stored, delivered, rm_failed>>
    /\ UNCHANGED <<rlvars, cvars, evvars, janlocals>>

\* a request that was admitted and carries a file
Submit == SaveAndAddJob /\ UNCHANGED anvars

\* something outside the class sets job_queue._stop
SetStop ==
    /\ WorkerYields
    /\ PollersIdle
    /\ ~_stop
    /\ _stop' = TRUE
    /\ UNCHANGED <<max_size, queue, results, processing, worker_pc, worker_job,
                   uploads, poll_pc, poll_job, poll_ret, poll_ctx, next_job,
                   enqueued, dequeued, outcome, stored, delivered, rm_failed>>
    /\ UNCHANGED <<rlvars, cvars, evvars, janvars, anvars>>

(***************************************************************************)
(* queue.Queue.get: the item that leaves the queue and what stays          *)
(***************************************************************************)
QueueGet_Lifo ==
    [item |-> queue[Len(queue)], rest |-> SubSeq(queue, 1, Len(queue) - 1)]

\* a get that hands over the first item and leaves it in the queue
QueueGet_Peek == [item |-> Head(queue), rest |-> queue]

QueueGet == [item |-> Head(queue), rest |-> Tail(queue)]

WorkerUnchanged ==
    UNCHANGED <<max_size, _stop, poll_pc, poll_job, poll_ret, poll_ctx,
                next_job, enqueued, delivered, rlvars, cvars, evvars, janvars,
                anvars>>

(***************************************************************************)
(* JobQueue._process_queue, one action per statement that reads or writes  *)
(* shared state. The Analyzer was constructed before the loop (line 55).   *)
(***************************************************************************)
\* line 57: while not self._stop
WorkerWhile ==
    /\ worker_pc = "while"
    /\ worker_pc' = IF _stop THEN "exited" ELSE "get"
    /\ UNCHANGED <<queue, results, processing, worker_job, uploads, dequeued,
                   outcome, stored, rm_failed>>
    /\ WorkerUnchanged

\* line 59: self.queue.get(timeout=1) hands over an item
WorkerGet ==
    /\ worker_pc = "get"
    /\ queue # <<>>
    /\ worker_job' = QueueGet.item
    /\ queue' = QueueGet.rest
    /\ dequeued' = Append(dequeued, QueueGet.item[1])
    /\ worker_pc' = "add"
    /\ UNCHANGED <<results, processing, uploads, outcome, stored, rm_failed>>
    /\ WorkerUnchanged

\* a get() without timeout: on an empty queue the worker stays blocked
WorkerGetEmpty_Blocks ==
    /\ worker_pc = "get"
    /\ queue = <<>>
    /\ FALSE
    /\ UNCHANGED vars

\* line 59, 83-84: nothing arrived within the timeout: queue.Empty, continue
WorkerGetEmpty ==
    /\ worker_pc = "get"
    /\ queue = <<>>
    /\ worker_pc' = "while"
    /\ UNCHANGED <<queue, results, processing, worker_job, uploads, dequeued,
                   outcome, stored, rm_failed>>
    /\ WorkerUnchanged

\* line 60: self.processing.add(job_id)
WorkerAdd ==
    /\ worker_pc = "add"
    /\ processing' = processing \cup {worker_job[1]}
    /\ worker_pc' = "analyze"
    /\ UNCHANGED <<queue, results, worker_job, uploads, dequeued, outcome,
                   stored, rm_failed>>
    /\ WorkerUnchanged

\* lines 64-69: the Analyzer returned; the completed record is stored
WorkerAnalyzeReturns ==
    /\ worker_pc = "analyze"
    /\ results' = DictSet(results, worker_job[1], Completed(worker_job[2]))
    /\ outcome' = [outcome EXCEPT ![worker_job[1]] = "returned"]
    /\ stored' = [stored EXCEPT ![worker_job[1]] = "completed"]
    /\ worker_pc' = "finally"
    /\ UNCHANGED <<queue, processing, worker_job, uploads, dequeued, rm_failed>>
    /\ WorkerUnchanged

\* an exception of the Analyzer that nothing catches: the thread dies
WorkerAnalyzeRaises_Uncaught ==
    /\ worker_pc = "analyze"
    /\ outcome' = [outcome EXCEPT ![worker_job[1]] = "raised"]
    /\ worker_pc' = "exited"
    /\ UNCHANGED <<queue, results, processing, worker_job, uploads, dequeued,
                   stored, rm_failed>>
    /\ WorkerUnchanged

\* an except clause that leaves the try statement without its finally clause
WorkerAnalyzeRaises_NoFinally ==
    /\ worker_pc = "analyze"
    /\ results' = DictSet(results, worker_job[1], Errored(worker_job[2]))
    /\ outcome' = [outcome EXCEPT ![worker_job[1]] = "raised"]
    /\ stored' = [stored EXCEPT ![worker_job[1]] = "error"]
    /\ worker_pc' = "while"
    /\ worker_job' = NoJob
    /\ UNCHANGED <<queue, processing, uploads, dequeued, rm_failed>>
    /\ WorkerUnchanged

\* lines 64, 70-74: the Analyzer raised; the error record is stored
WorkerAnalyzeRaises ==
    /\ worker_pc = "analyze"
    /\ results' = DictSet(results, worker_job[1], Errored(worker_job[2]))
    /\ outcome' = [outcome EXCEPT ![worker_job[1]] = "raised"]
    /\ stored' = [stored EXCEPT ![worker_job[1]] = "error"]
    /\ worker_pc' = "finally"
    /\ UNCHANGED <<queue, processing, worker_job, uploads, dequeued, rm_failed>>
    /\ WorkerUnchanged

\* line 76: self.processing.remove(job_id); a missing id raises KeyError,
\* which line 85 catches, and the loop goes on
WorkerFinally ==
    /\ worker_pc = "finally"
    /\ IF worker_job[1] \in processing
          THEN /\ processing' = processing \ {worker_job[1]}
               /\ worker_pc' = "exists"
               /\ UNCHANGED worker_job
          ELSE /\ UNCHANGED processing
               /\ worker_pc' = "while"
               /\ worker_job' = NoJob
    /\ UNCHANGED <<queue, results, uploads, dequeued, outcome, stored, rm_failed>>
    /\ WorkerUnchanged

\* line 77: if os.path.exists(image_path)
WorkerExists ==
    /\ worker_pc = "exists"
    /\ IF worker_job[2] \in uploads
          THEN worker_pc' = "remove" /\ UNCHANGED worker_job
          ELSE worker_pc' = "while" /\ worker_job' = NoJob
    /\ UNCHANGED <<queue, results, processing, uploads, dequeued, outcome,
                   stored, rm_failed>>
    /\ WorkerUnchanged

\* line 79: os.remove(image_path) deletes the file
WorkerRemove ==
    /\ worker_pc = "remove"
    /\ uploads' = uploads \ {worker_job[2]}
    /\ worker_pc' = "while"
    /\ worker_job' = NoJob
    /\ UNCHANGED <<queue, results, processing, dequeued, outcome, stored,
                   rm_failed>>
    /\ WorkerUnchanged

\* lines 79-81: os.remove raised; except: pass
WorkerRemoveFails ==
    /\ worker_pc = "remove"
    /\ rm_failed' = rm_failed \cup {worker_job[2]}
    /\ worker_pc' = "while"
    /\ worker_job' = NoJob
    /\ UNCHANGED <<queue, results, processing, uploads, dequeued, outcome,
                   stored>>
    /\ WorkerUnchanged

Worker ==
    /\ PollersIdle
    /\ \/ WorkerWhile
       \/ WorkerGet
       \/ WorkerGetEmpty
       \/ WorkerAdd
       \/ WorkerAnalyzeReturns
       \/ WorkerAnalyzeRaises
       \/ WorkerFinally
       \/ WorkerExists
       \/ WorkerRemove
       \/ WorkerRemoveFails

(***************************************************************************)
(* JobQueue.get_result in a request handler: three statements, no lock     *)
(***************************************************************************)
PollUnchanged ==
    UNCHANGED <<max_size, queue, processing, _stop, worker_pc, worker_job,
                uploads, next_job, enqueued, dequeued, outcome, stored,
                rm_failed, rlvars, cvars, evvars, janvars, anvars>>

\* what is true of id j when a poll for it is called
PollContext(j) ==
    IF j \in delivered THEN "delivered"
    ELSE IF j \in Range(dequeued) THEN "dequeued"
    ELSE IF j \in Range(enqueued) THEN "accepted"
    ELSE "unknown"

\* the call and line 47: if job_id in self.results
PollCall(p, j) ==
    /\ WorkerYields
    /\ PollersIdle
    /\ poll_job' = [poll_job EXCEPT ![p] = j]
    /\ poll_ctx' = [poll_ctx EXCEPT ![p] = PollContext(j)]
    /\ poll_ret' = [poll_ret EXCEPT ![p] = NoRet]
    /\ poll_pc' = [poll_pc EXCEPT ![p] =
                      IF j \in DOMAIN results THEN "pop" ELSE "check_processing"]
    /\ UNCHANGED <<results, delivered>>
    /\ PollUnchanged

\* line 48: return self.results.pop(job_id); KeyError when the key is gone
PollPop(p) ==
    /\ poll_pc[p] = "pop"
    /\ IF poll_job[p] \in DOMAIN results
          THEN /\ poll_ret' = [poll_ret EXCEPT ![p] = results[poll_job[p]]]
               /\ results' = DictPop(results, poll_job[p])
               /\ delivered' = delivered \cup {poll_job[p]}
          ELSE /\ poll_ret' = [poll_ret EXCEPT ![p] = KeyError]
               /\ UNCHANGED <<results, delivered>>
    /\ poll_pc' = [poll_pc EXCEPT ![p] = "idle"]
    /\ UNCHANGED <<poll_job, poll_ctx>>
    /\ PollUnchanged

\* lines 49-51: processing if the id is in self.processing, else not_found
PollCheckProcessing(p) ==
    /\ poll_pc[p] = "check_processing"
    /\ poll_ret' = [poll_ret EXCEPT ![p] =
                       IF poll_job[p] \in processing THEN Processing ELSE NotFound]
    /\ poll_pc' = [poll_pc EXCEPT ![p] = "idle"]
    /\ UNCHANGED <<poll_job, poll_ctx, results, delivered>>
    /\ PollUnchanged

Poll ==
    \/ \E p \in Pollers, j \in 1..next_job : PollCall(p, j)
    \/ \E p \in Pollers : PollPop(p)
    \/ \E p \in Pollers : PollCheckProcessing(p)


(***************************************************************************)
(* cleanup_old_files, run once by the thread that __main__ starts          *)
(* (lines 191-194): the whole sweep is inside one try statement. Nothing   *)
(* in it blocks, so under monkey.patch_all() no request handler and no     *)
(* worker step runs between its first and its last statement; time passes. *)
(***************************************************************************)
\* the cleanup thread is inside cleanup_old_files
SweepRunning == jan_pc \notin {"start", "returned"}

JanUnchanged ==
    UNCHANGED <<max_size, queue, results, processing, _stop, worker_pc, worker_job,
                poll_pc, poll_job, poll_ret, poll_ctx, next_job, enqueued,
                dequeued, outcome, stored, delivered, rm_failed, ctime,
                rlvars, cvars, evvars, anvars>>

\* a test with the sign of the window reversed
IsOld_SignError(file_path) == ctime[file_path] < current_time + Retention

\* line 181: os.path.getctime(file_path) < current_time - 3600
IsOld(file_path) == ctime[file_path] < current_time - Retention

\* lines 178-179: current_time = time.time(); os.listdir(UPLOAD_FOLDER)
JanListdir ==
    /\ jan_pc = "start"
    /\ current_time' = clock
    /\ jan_todo' = uploads
    /\ jan_listed' = uploads
    /\ jan_pc' = "for"
    /\ UNCHANGED <<uploads, jan_file, jan_removed, jan_failed>>
    /\ JanUnchanged

\* lines 179-181: the next name of the listing (in the order of os.listdir,
\* which is any order) and the test of its age; the function returns when
\* the listing is used up
JanFor ==
    /\ jan_pc = "for"
    /\ IF jan_todo = {}
          THEN /\ jan_pc' = "returned"
               /\ UNCHANGED <<jan_todo, jan_file>>
          ELSE \E f \in jan_todo :
                  /\ f \in uploads
                  /\ jan_todo' = jan_todo \ {f}
                  /\ IF IsOld(f)
                        THEN jan_pc' = "remove" /\ jan_file' = f
                        ELSE jan_pc' = "for" /\ UNCHANGED jan_file
    /\ UNCHANGED <<uploads, current_time, jan_listed, jan_removed, jan_failed>>
    /\ JanUnchanged

\* line 182: os.remove(file_path)
JanRemove ==
    /\ jan_pc = "remove"
    /\ jan_file \in uploads
    /\ uploads' = uploads \ {jan_file}
    /\ jan_removed' = jan_removed \cup {jan_file}
    /\ jan_file' = 0
    /\ jan_pc' = "for"
    /\ UNCHANGED <<current_time, jan_todo, jan_listed, jan_failed>>
    /\ JanUnchanged

\* lines 182-184: os.remove raises: the except clause around the loop logs,
\* the function returns
JanRemoveRaises ==
    /\ jan_pc = "remove"
    /\ jan_failed' = jan_failed \cup {jan_file}
    /\ jan_file' = 0
    /\ jan_pc' = "returned"
    /\ UNCHANGED <<uploads, current_time, jan_todo, jan_listed, jan_removed>>
    /\ JanUnchanged

cleanup_old_files ==
    \/ JanListdir
    \/ JanFor
    \/ JanRemove
    \/ JanRemoveRaises

(***************************************************************************)
(* RateLimiter.__init__                                                    *)
(***************************************************************************)
RateLimiterInit ==
    /\ requests = <<>>
    /\ lock = NoThread
    /\ clock = 0
    /\ rl_pc = [t \in Callers |-> "idle"]
    /\ rl_client = [t \in Callers |-> NoClient]
    /\ rl_now = [t \in Callers |-> 0]
    /\ rl_ret = [t \in Callers |-> "none"]
    /\ admitted = [c \in Clients |-> <<>>]

RlUnchanged == UNCHANGED <<jqvars, cvars, evvars, janvars>>

\* time passes
Tick ==
    /\ clock < MaxClock
    /\ clock' = clock + 1
    /\ UNCHANGED <<requests, lock, rl_pc, rl_client, rl_now, rl_ret, admitted>>
    /\ UNCHANGED anvars
    /\ RlUnchanged

\* a lock that never excludes anyone
LockFree_NoLock == TRUE

\* threading.Lock: free when no thread holds it
LockFree == lock = NoThread

\* keeps a timestamp up to and including the one exactly time_window old
Prune_Inclusive(ts, now) == SelectSeq(ts, LAMBDA t : now - t <= time_window)

\* lines 102-103: [t for t in self.requests[client_id] if now - t < self.time_window]
Prune(ts, now) == SelectSeq(ts, LAMBDA t : now - t < time_window)

\* line 106: len(self.requests[client_id]) < self.max_requests
UnderLimit(ts) == Len(ts) < max_requests

\* line 96: with self.lock (entered for client c)
RlAcquire(t, c) ==
    /\ rl_pc[t] = "idle"
    /\ LockFree
    /\ lock' = t
    /\ rl_client' = [rl_client EXCEPT ![t] = c]
    /\ rl_ret' = [rl_ret EXCEPT ![t] = "none"]
    /\ rl_pc' = [rl_pc EXCEPT ![t] = "now"]
    /\ UNCHANGED <<requests, clock, rl_now, admitted>>
    /\ RlUnchanged

\* lines 97-99: now = time.time(); a new client gets an empty list
RlNow(t) ==
    /\ rl_pc[t] = "now"
    /\ rl_now' = [rl_now EXCEPT ![t] = clock]
    /\ requests' = IF rl_client[t] \in DOMAIN requests
                      THEN requests
                      ELSE DictSet(requests, rl_client[t], <<>>)
    /\ rl_pc' = [rl_pc EXCEPT ![t] = "prune"]
    /\ UNCHANGED <<lock, clock, rl_client, rl_ret, admitted>>
    /\ RlUnchanged

\* lines 102-103: drop the old requests
RlPrune(t) ==
    /\ rl_pc[t] = "prune"
    /\ requests' = DictSet(requests, rl_client[t],
                           Prune(requests[rl_client[t]], rl_now[t]))
    /\ rl_pc' = [rl_pc EXCEPT ![t] = "check"]
    /\ UNCHANGED <<lock, clock, rl_client, rl_now, rl_ret, admitted>>
    /\ RlUnchanged

\* lines 106-108: under the limit: record now, return True (lock released)
RlAllow(t) ==
    /\ rl_pc[t] = "check"
    /\ UnderLimit(requests[rl_client[t]])
    /\ requests' = DictSet(requests, rl_client[t],
                           Append(requests[rl_client[t]], rl_now[t]))
    /\ admitted' = [admitted EXCEPT ![rl_client[t]] = Append(@, rl_now[t])]
    /\ rl_ret' = [rl_ret EXCEPT ![t] = "allowed"]
    /\ rl_pc' = [rl_pc EXCEPT ![t] = "idle"]
    /\ rl_now' = [rl_now EXCEPT ![t] = 0]
    /\ lock' = NoThread
    /\ UNCHANGED <<clock, rl_client>>
    /\ RlUnchanged

\* lines 106, 109: at the limit: return False (lock released)
RlDeny(t) ==
    /\ rl_pc[t] = "check"
    /\ ~UnderLimit(requests[rl_client[t]])
    /\ rl_ret' = [rl_ret EXCEPT ![t] = "denied"]
    /\ rl_pc' = [rl_pc EXCEPT ![t] = "idle"]
    /\ rl_now' = [rl_now EXCEPT ![t] = 0]
    /\ lock' = NoThread
    /\ UNCHANGED <<requests, clock, rl_client, admitted>>
    /\ RlUnchanged

\* is_allowed called by threads that are not serving a request
IsAllowed ==
    /\ \/ \E t \in Callers, c \in Clients : RlAcquire(t, c)
       \/ \E t \in Callers : RlNow(t)
       \/ \E t \in Callers : RlPrune(t)
       \/ \E t \in Callers : RlAllow(t)
       \/ \E t \in Callers : RlDeny(t)
    /\ UNCHANGED anvars

(***************************************************************************)
(* The /analyze route (lines 132-164), one action per stretch between two  *)
(* points where the handler reads or writes shared state: the admission    *)
(* check, the test of its result, the validation of the upload, and the    *)
(* saved file with its add_job.                                            *)
(***************************************************************************)
\* what a request carries in request.files
Uploads == {"no_file", "empty_filename", "file"}

AnalyzeInit ==
    /\ an_pc = [t \in Callers |-> "idle"]
    /\ an_client = [t \in Callers |-> NoClient]
    /\ an_upload = [t \in Callers |-> "none"]
    /\ an_resp = [t \in Callers |-> 0]
    /\ an_log = [c \in Clients |->
                   [jobs |-> {}, invalid |-> 0, busy |-> 0, limited |-> FALSE]]

AnUnchanged == UNCHANGED <<jqvars, rlvars, cvars, evvars, janvars>>

\* no handler is inside is_allowed, which has no blocking call: under
\* monkey.patch_all() nothing else runs between its first and last statement
LimiterIdle == lock = NoThread

\* the handlers that will ask for a job id
Uploading == {t \in Callers : an_pc[t] # "idle" /\ an_upload[t] = "file"}

\* the handler answers with a status code and is done with the request
AnRespond(t, code) ==
    /\ an_resp' = [an_resp EXCEPT ![t] = code]
    /\ an_pc' = [an_pc EXCEPT ![t] = "idle"]
    /\ an_client' = [an_client EXCEPT ![t] = NoClient]
    /\ an_upload' = [an_upload EXCEPT ![t] = "none"]

\* lines 135-136: client_id = request.remote_addr; rate_limiter.is_allowed
\* is entered
AnCall(t, c, upload) ==
    /\ an_pc[t] = "idle"
    /\ upload = "file" => next_job + Cardinality(Uploading) < MaxJobs
    /\ RlAcquire(t, c)
    /\ an_pc' = [an_pc EXCEPT ![t] = "is_allowed"]
    /\ an_client' = [an_client EXCEPT ![t] = c]
    /\ an_upload' = [an_upload EXCEPT ![t] = upload]
    /\ an_resp' = [an_resp EXCEPT ![t] = 0]
    /\ UNCHANGED an_log

\* line 136: the rest of is_allowed
AnIsAllowed(t) ==
    /\ an_pc[t] = "is_allowed"
    /\ \/ RlNow(t)
       \/ RlPrune(t)
       \/ RlAllow(t)
       \/ RlDeny(t)
    /\ UNCHANGED anvars

\* lines 136-137: if not rate_limiter.is_allowed(client_id): 429
AnReturned(t) ==
    /\ an_pc[t] = "is_allowed"
    /\ rl_pc[t] = "idle"
    /\ LimiterIdle
    /\ IF rl_ret[t] = "denied"
          THEN /\ AnRespond(t, 429)
               /\ an_log' = [an_log EXCEPT ![an_client[t]].limited = TRUE]
          ELSE /\ an_pc' = [an_pc EXCEPT ![t] = "files"]
               /\ UNCHANGED <<an_resp, an_log, an_client, an_upload>>
    /\ AnUnchanged

\* a rejection that takes the request's timestamp out of the client's list
AnFiles_ReturnsSlot(t) ==
    /\ an_pc[t] = "files"
    /\ LimiterIdle
    /\ IF an_upload[t] \in {"no_file", "empty_filename"}
          THEN /\ AnRespond(t, 400)
               /\ an_log' = [an_log EXCEPT ![an_client[t]].invalid = @ + 1]
               /\ requests' = [requests EXCEPT ![an_client[t]] =
                                  SubSeq(@, 1, Len(@) - 1)]
          ELSE /\ an_pc' = [an_pc EXCEPT ![t] = "save"]
               /\ UNCHANGED <<an_resp, an_log, an_client, an_upload, requests>>
    /\ UNCHANGED <<jqvars, lock, clock, rl_pc, rl_client, rl_now, rl_ret,
                   admitted, cvars, evvars, janvars>>

\* lines 140-145: no 'file' in request.files, or an empty filename: 400
AnFiles(t) ==
    /\ an_pc[t] = "files"
    /\ LimiterIdle
    /\ IF an_upload[t] \in {"no_file", "empty_filename"}
          THEN /\ AnRespond(t, 400)
               /\ an_log' = [an_log EXCEPT ![an_client[t]].invalid = @ + 1]
          ELSE /\ an_pc' = [an_pc EXCEPT ![t] = "save"]
               /\ UNCHANGED <<an_resp, an_log, an_client, an_upload>>
    /\ AnUnchanged

\* lines 147-160: the file is saved and add_job called: the job id (200), or
\* the file removed again and 503
AnSave(t) ==
    /\ an_pc[t] = "save"
    /\ LimiterIdle
    /\ SaveAndAddJob
    /\ IF AddJobAccepts
          THEN /\ AnRespond(t, 200)
               /\ an_log' = [an_log EXCEPT ![an_client[t]].jobs = @ \cup {next_job'}]
          ELSE /\ AnRespond(t, 503)
               /\ an_log' = [an_log EXCEPT ![an_client[t]].busy = @ + 1]

Analyze ==
    \/ \E t \in Callers, c \in Clients, upload \in Uploads : AnCall(t, c, upload)
    \/ \E t \in Callers : AnIsAllowed(t)
    \/ \E t \in Callers : AnReturned(t)
    \/ \E t \in Callers : AnFiles(t)
    \/ \E t \in Callers : AnSave(t)

(***************************************************************************)
(* Python values that are handed to cache_result as results, and the JSON  *)
(* documents json.dump writes for them.                                    *)
(***************************************************************************)
PyStr(str) == [t |-> "str", s |-> str, n |-> 0, xs |-> <<>>, ks |-> <<>>]
PyInt(num) == [t |-> "int", s |-> "", n |-> num, xs |-> <<>>, ks |-> <<>>]
PyList(elems) == [t |-> "list", s |-> "", n |-> 0, xs |-> elems, ks |-> <<>>]
PyTuple(elems) == [t |-> "tuple", s |-> "", n |-> 0, xs |-> elems, ks |-> <<>>]
\* a dict with the string keys keys[i] and the values vals[i]
PyDict(keys, vals) == [t |-> "dict", s |-> "", n |-> 0, xs |-> vals, ks |-> keys]
\* a value json cannot serialize (a numpy array, a tensor, a set)
PyObject == [t |-> "object", s |-> "", n |-> 0, xs |-> <<>>, ks |-> <<>>]

\* the shape of ai_models.MedicalImageAnalyzer.analyze_image's result
ResultsAi ==
    PyDict(<<"analysis_confidence", "findings">>,
           <<PyStr("97.0%"), PyList(<<PyStr("Optimal image brightness")>>)>>)
\* the shape of cli.analyze_image's result: image_size is the tuple image.size
ResultsCli ==
    PyDict(<<"image_size", "mean_intensity">>,
           <<PyTuple(<<PyInt(1), PyInt(2)>>), PyStr("0.50")>>)
\* a result that holds a value json cannot serialize
ResultsRaw == PyDict(<<"features">>, <<PyObject>>)

ResultValues == {ResultsAi, ResultsCli, ResultsRaw}

RECURSIVE JsonEncodable(_)
\* json.dump raises TypeError on a value it cannot serialize
JsonEncodable(v) ==
    /\ v.t # "object"
    /\ \A i \in DOMAIN v.xs : JsonEncodable(v.xs[i])

RECURSIVE JsonEncode(_)
\* json.dump: str -> string, int -> number, list and tuple -> array,
\* dict -> object
JsonEncode(v) ==
    [t |-> CASE v.t = "str" -> "string"
             [] v.t = "int" -> "number"
             [] v.t \in {"list", "tuple"} -> "array"
             [] v.t = "dict" -> "object"
             [] OTHER -> "invalid",
     s |-> v.s,
     n |-> v.n,
     xs |-> [i \in DOMAIN v.xs |-> JsonEncode(v.xs[i])],
     ks |-> v.ks]

RECURSIVE JsonDecode(_)
\* json.load: string -> str, number -> int, array -> list, object -> dict
JsonDecode(d) ==
    [t |-> CASE d.t = "string" -> "str"
             [] d.t = "number" -> "int"
             [] d.t = "array" -> "list"
             [] d.t = "object" -> "dict"
             [] OTHER -> "object",
     s |-> d.s,
     n |-> d.n,
     xs |-> [i \in DOMAIN d.xs |-> JsonDecode(d.xs[i])],
     ks |-> d.ks]

(***************************************************************************)
(* Images, their raw bytes, their digest and their JPEG encoding           *)
(***************************************************************************)
ImageA == [mode |-> "RGB", size |-> <<1, 2>>, pixels |-> "a"]
\* other dimensions, the same raw bytes
ImageA2 == [mode |-> "RGB", size |-> <<2, 1>>, pixels |-> "a"]
ImageB == [mode |-> "RGB", size |-> <<1, 2>>, pixels |-> "b"]

Images == {ImageA, ImageA2, ImageB}

\* image.tobytes(): the raw pixel data, without mode or size
ToBytes(image) == image.pixels

\* hashlib.md5(data).hexdigest()
Md5Hex(data) ==
    CASE data = "a" -> "0cc175b9c0f1b6a831c399e269772661"
      [] data = "b" -> "92eb5ffee6ae2fec3ad71c777531578f"

\* lines 32-35: StaticProcessor.get_file_hash
get_file_hash(image) == Md5Hex(ToBytes(image))

Hashes == {get_file_hash(image) : image \in Images}

\* image.save(path, 'JPEG', quality=85, optimize=True): the lossy encoding
JpegEncode(image) ==
    [format |-> "JPEG", size |-> image.size, scan |-> <<"q85", image.pixels>>]

\* every result is written to one file, whatever the hash
ResultPath_OneFile(file_hash) == <<"results", "latest", "json">>

\* lines 45, 78: os.path.join(self.results_dir, f"{file_hash}.json")
ResultPath(file_hash) == <<"results", file_hash, "json">>

\* lines 46, 74: os.path.join(self.images_dir, f"{file_hash}.jpg")
ImagePath(file_hash) == <<"images", file_hash, "jpg">>

None == [status |-> "None"]
Stored(file_hash) == [status |-> "stored", file_hash |-> file_hash]
Hit(res, path) == [status |-> "hit", results |-> res, image_path |-> path]

(***************************************************************************)
(* The file system under static_dir                                        *)
(***************************************************************************)
Exists(path) == path \in DOMAIN files

\* open(path, 'w'): creates the file or truncates it; a new file gets the
\* current time as access time, a truncated one keeps its own
OpenForWrite(path) ==
    DictSet(files, path,
            [data |-> <<>>, complete |-> FALSE,
             atime |-> IF Exists(path) THEN files[path].atime ELSE clock])

\* the writes and the close: the file holds all of data; writes to a file
\* that was unlinked while open do not bring its name back
WriteAll(path, data) ==
    IF Exists(path)
       THEN DictSet(files, path,
                    [data |-> data, complete |-> TRUE, atime |-> files[path].atime])
       ELSE files

\* os.utime(path, None)
Utime(path) == DictSet(files, path, [files[path] EXCEPT !.atime = clock])

(***************************************************************************)
(* StaticProcessor.__init__: the directory is kept as it is found, the     *)
(* cleanup thread is started                                               *)
(***************************************************************************)
StaticProcessorStart(static_dir, cache_size) ==
    /\ files = static_dir
    /\ max_cache_size = cache_size
    /\ ev_pc = "walk"
    /\ ev_files = <<>>
    /\ total_size = 0
    /\ ev_i = 0
    /\ ev_before = static_dir
    /\ ev_removed = <<>>
    /\ ev_failed = {}
    /\ cache_lock = NoThread
    /\ cr_pc = [w \in Storers |-> "idle"]
    /\ cr_image = [w \in Storers |-> ImageA]
    /\ cr_results = [w \in Storers |-> ResultsAi]
    /\ cr_ret = [w \in Storers |-> NoRet]
    /\ gc_pc = [r \in Readers |-> "idle"]
    /\ gc_hash = [r \in Readers |-> ""]
    /\ gc_results = [r \in Readers |-> None]
    /\ gc_ret = [r \in Readers |-> NoRet]
    /\ fresh = <<>>
    /\ gc_ctx = [r \in Readers |-> "none"]
    /\ gc_obs = [r \in Readers |-> [seen |-> "none", quiet |-> TRUE]]

\* ... on an empty cache directory
StaticProcessorInit == StaticProcessorStart(<<>>, MaxCacheSize)

CacheUnchanged == UNCHANGED <<jqvars, requests, lock, rl_pc, rl_client, rl_now,
                              rl_ret, admitted, evvars, janvars, anvars>>

\* a lock that never excludes anyone
CacheLockFree_NoLock == TRUE

\* self.cache_lock is free
CacheLockFree == cache_lock = NoThread

\* the blobs of file_hash that are present
BlobsPresent(file_hash) ==
    CASE Exists(ResultPath(file_hash)) /\ Exists(ImagePath(file_hash)) -> "both"
      [] Exists(ResultPath(file_hash)) -> "result"
      [] Exists(ImagePath(file_hash)) -> "image"
      [] OTHER -> "neither"

\* a blob of file_hash is written or deleted: the lookups of file_hash that
\* are under way no longer are quiet
Touch(file_hash) ==
    gc_obs' = [r \in Readers |->
                 IF gc_pc[r] # "idle" /\ gc_hash[r] = file_hash
                    THEN [gc_obs[r] EXCEPT !.quiet = FALSE] ELSE gc_obs[r]]

\* a write for file_hash begins: the entry is no longer the one last stored,
\* and a lookup of file_hash no longer is one with no write during or after it
WriteBegins(file_hash) ==
    /\ fresh' = DictPop(fresh, file_hash)
    /\ gc_ctx' = [r \in Readers |->
                    IF gc_hash[r] = file_hash /\ gc_ctx[r] = "clean"
                       THEN "disturbed" ELSE gc_ctx[r]]
    /\ Touch(file_hash)

(***************************************************************************)
(* StaticProcessor.cache_result(image, results)                            *)
(***************************************************************************)
\* the with block is left (the lock released) and the call returns; its
\* arguments are gone
CrLeave(w) ==
    /\ cache_lock' = NoThread
    /\ cr_pc' = [cr_pc EXCEPT ![w] = "idle"]
    /\ cr_image' = [cr_image EXCEPT ![w] = ImageA]
    /\ cr_results' = [cr_results EXCEPT ![w] = ResultsAi]

\* line 69: with self.cache_lock
CrCall(w, image, res) ==
    /\ cr_pc[w] = "idle"
    /\ CacheLockFree
    /\ cache_lock' = w
    /\ cr_image' = [cr_image EXCEPT ![w] = image]
    /\ cr_results' = [cr_results EXCEPT ![w] = res]
    /\ cr_ret' = [cr_ret EXCEPT ![w] = NoRet]
    /\ cr_pc' = [cr_pc EXCEPT ![w] = "save_open"]
    /\ UNCHANGED <<files, clock, gc_pc, gc_hash, gc_results, gc_ret, fresh, gc_ctx,
                   gc_obs>>
    /\ CacheUnchanged

\* lines 71-75: the hash; image.save opens the image file for writing
CrSaveOpen(w) ==
    /\ cr_pc[w] = "save_open"
    /\ files' = OpenForWrite(ImagePath(get_file_hash(cr_image[w])))
    /\ WriteBegins(get_file_hash(cr_image[w]))
    /\ cr_pc' = [cr_pc EXCEPT ![w] = "save_write"]
    /\ UNCHANGED <<cache_lock, clock, cr_image, cr_results, cr_ret, gc_pc, gc_hash,
                   gc_results, gc_ret>>
    /\ CacheUnchanged

\* line 75: image.save writes the JPEG and closes the file
CrSaveWrite(w) ==
    /\ cr_pc[w] = "save_write"
    /\ files' = WriteAll(ImagePath(get_file_hash(cr_image[w])), JpegEncode(cr_image[w]))
    /\ Touch(get_file_hash(cr_image[w]))
    /\ cr_pc' = [cr_pc EXCEPT ![w] = "dump_open"]
    /\ UNCHANGED <<cache_lock, clock, cr_image, cr_results, cr_ret, gc_pc, gc_hash,
                   gc_results, gc_ret, fresh, gc_ctx>>
    /\ CacheUnchanged

\* lines 78-79: open(result_path, 'w')
CrDumpOpen(w) ==
    /\ cr_pc[w] = "dump_open"
    /\ files' = OpenForWrite(ResultPath(get_file_hash(cr_image[w])))
    /\ Touch(get_file_hash(cr_image[w]))
    /\ cr_pc' = [cr_pc EXCEPT ![w] = "dump"]
    /\ UNCHANGED <<cache_lock, clock, cr_image, cr_results, cr_ret, gc_pc, gc_hash,
                   gc_results, gc_ret, fresh, gc_ctx>>
    /\ CacheUnchanged

\* lines 80-82: json.dump writes the results, the file is closed, the hash
\* is returned and the lock released
CrDump(w) ==
    /\ cr_pc[w] = "dump"
    /\ JsonEncodable(cr_results[w])
    /\ files' = WriteAll(ResultPath(get_file_hash(cr_image[w])), JsonEncode(cr_results[w]))
    /\ cr_ret' = [cr_ret EXCEPT ![w] = Stored(get_file_hash(cr_image[w]))]
    /\ fresh' = DictSet(fresh, get_file_hash(cr_image[w]),
                        [image |-> cr_image[w], results |-> cr_results[w]])
    /\ Touch(get_file_hash(cr_image[w]))
    /\ CrLeave(w)
    /\ UNCHANGED <<clock, gc_pc, gc_hash, gc_results, gc_ret, gc_ctx>>
    /\ CacheUnchanged

\* lines 80, 83-84: json.dump raises TypeError part way; except: return None
CrDumpRaises(w) ==
    /\ cr_pc[w] = "dump"
    /\ ~JsonEncodable(cr_results[w])
    /\ cr_ret' = [cr_ret EXCEPT ![w] = None]
    /\ CrLeave(w)
    /\ UNCHANGED <<files, clock, gc_pc, gc_hash, gc_results, gc_ret, fresh, gc_ctx,
                   gc_obs>>
    /\ CacheUnchanged

CacheResult ==
    \/ \E w \in Storers, image \in Images, res \in ResultValues : CrCall(w, image, res)
    \/ \E w \in Storers : CrSaveOpen(w)
    \/ \E w \in Storers : CrSaveWrite(w)
    \/ \E w \in Storers : CrDumpOpen(w)
    \/ \E w \in Storers : CrDump(w)
    \/ \E w \in Storers : CrDumpRaises(w)

(***************************************************************************)
(* StaticProcessor.get_cached_result(file_hash), which takes no lock       *)
(***************************************************************************)
GcUnchanged == UNCHANGED <<cache_lock, clock, cr_pc, cr_image, cr_results, cr_ret,
                           fresh>>

\* the call returns value
GcReturn(r, value) ==
    /\ gc_ret' = [gc_ret EXCEPT ![r] = value]
    /\ gc_pc' = [gc_pc EXCEPT ![r] = "idle"]
    /\ gc_results' = [gc_results EXCEPT ![r] = None]

\* lines 45-49, 39-41: cache_exists looks for the result file first
GcCall(r, file_hash) ==
    /\ gc_pc[r] = "idle"
    /\ gc_hash' = [gc_hash EXCEPT ![r] = file_hash]
    /\ gc_ctx' = [gc_ctx EXCEPT ![r] =
                    IF file_hash \in DOMAIN fresh THEN "clean" ELSE "cold"]
    /\ gc_obs' = [gc_obs EXCEPT ![r] =
                    [seen |-> BlobsPresent(file_hash), quiet |-> TRUE]]
    /\ IF Exists(ResultPath(file_hash))
          THEN /\ gc_pc' = [gc_pc EXCEPT ![r] = "exists_image"]
               /\ gc_ret' = [gc_ret EXCEPT ![r] = NoRet]
               /\ UNCHANGED gc_results
          ELSE GcReturn(r, None)
    /\ UNCHANGED files
    /\ GcUnchanged
    /\ CacheUnchanged

\* lines 41, 48-49: ... and then for the image file
GcExistsImage(r) ==
    /\ gc_pc[r] = "exists_image"
    /\ IF Exists(ImagePath(gc_hash[r]))
          THEN /\ gc_pc' = [gc_pc EXCEPT ![r] = "load"]
               /\ UNCHANGED <<gc_ret, gc_results>>
          ELSE GcReturn(r, None)
    /\ UNCHANGED <<files, gc_hash, gc_ctx, gc_obs>>
    /\ GcUnchanged
    /\ CacheUnchanged

\* lines 52-53, 63-64: json.load of the result file; a missing file or one
\* that does not hold a whole document raises, and None is returned
GcLoad(r) ==
    /\ gc_pc[r] = "load"
    /\ IF Exists(ResultPath(gc_hash[r])) /\ files[ResultPath(gc_hash[r])].complete
          THEN /\ gc_results' = [gc_results EXCEPT ![r] =
                                    JsonDecode(files[ResultPath(gc_hash[r])].data)]
               /\ gc_pc' = [gc_pc EXCEPT ![r] = "utime_result"]
               /\ UNCHANGED gc_ret
          ELSE GcReturn(r, None)
    /\ UNCHANGED <<files, gc_hash, gc_ctx, gc_obs>>
    /\ GcUnchanged
    /\ CacheUnchanged

\* line 56: os.utime(result_path, None)
GcUtimeResult(r) ==
    /\ gc_pc[r] = "utime_result"
    /\ IF Exists(ResultPath(gc_hash[r]))
          THEN /\ files' = Utime(ResultPath(gc_hash[r]))
               /\ gc_pc' = [gc_pc EXCEPT ![r] = "utime_image"]
               /\ UNCHANGED <<gc_ret, gc_results>>
          ELSE /\ GcReturn(r, None)
               /\ UNCHANGED files
    /\ UNCHANGED <<gc_hash, gc_ctx, gc_obs>>
    /\ GcUnchanged
    /\ CacheUnchanged

\* lines 57-62 with a refresh that swallows its own failure
GcUtimeImage_BestEffort(r) ==
    /\ gc_pc[r] = "utime_image"
    /\ files' = IF Exists(ImagePath(gc_hash[r])) THEN Utime(ImagePath(gc_hash[r]))
                                                  ELSE files
    /\ GcReturn(r, Hit(gc_results[r], ImagePath(gc_hash[r])))
    /\ UNCHANGED <<gc_hash, gc_ctx, gc_obs>>
    /\ GcUnchanged
    /\ CacheUnchanged

\* lines 57-62: os.utime(image_path, None), and the hit is returned
GcUtimeImage(r) ==
    /\ gc_pc[r] = "utime_image"
    /\ IF Exists(ImagePath(gc_hash[r]))
          THEN /\ files' = Utime(ImagePath(gc_hash[r]))
               /\ GcReturn(r, Hit(gc_results[r], ImagePath(gc_hash[r])))
          ELSE /\ GcReturn(r, None)
               /\ UNCHANGED files
    /\ UNCHANGED <<gc_hash, gc_ctx, gc_obs>>
    /\ GcUnchanged
    /\ CacheUnchanged

\* lines 56-57, 63-64: os.utime raises OSError; except: return None
GcUtimeRaises(r) ==
    /\ gc_pc[r] \in {"utime_result", "utime_image"}
    /\ GcReturn(r, None)
    /\ gc_ctx' = [gc_ctx EXCEPT ![r] = "failed"]
    /\ UNCHANGED <<files, gc_hash, gc_obs>>
    /\ GcUnchanged
    /\ CacheUnchanged

GetCachedResult ==
    \/ \E r \in Readers, file_hash \in Hashes : GcCall(r, file_hash)
    \/ \E r \in Readers : GcExistsImage(r)
    \/ \E r \in Readers : GcLoad(r)
    \/ \E r \in Readers : GcUtimeResult(r)
    \/ \E r \in Readers : GcUtimeImage(r)
    \/ \E r \in Readers : GcUtimeRaises(r)

(***************************************************************************)
(* A blob leaves the cache directory behind the back of cache_result and   *)
(* get_cached_result: os.remove in _cleanup_old_files (line 113), which    *)
(* deletes single files and takes no lock, or anything outside the class.  *)
(***************************************************************************)
DeleteBlob ==
    \E path \in DOMAIN files :
        /\ files' = DictPop(files, path)
        /\ WriteBegins(path[2])
        /\ UNCHANGED <<cache_lock, clock, cr_pc, cr_image, cr_results, cr_ret,
                       gc_pc, gc_hash, gc_results, gc_ret>>
        /\ CacheUnchanged

(***************************************************************************)
(* StaticProcessor._cleanup_old_files: one thread, passes an hour apart    *)
(***************************************************************************)
RECURSIVE JsonLength(_, _)
\* the number of characters json.dump writes for a document, one per node
JsonLength(d, i) ==
    IF i > Len(d.xs) THEN 1 ELSE JsonLength(d.xs[i], 1) + JsonLength(d, i + 1)

\* os.path.getsize(filepath): nothing in a file just opened for writing, one
\* byte per pixel in an image blob, one per node in a result blob
FileBytes(filepath, file) ==
    IF ~file.complete THEN 0
    ELSE IF filepath[1] = "images" THEN file.data.size[1] * file.data.size[2]
    ELSE JsonLength(file.data, 1)

getsize(filepath) == FileBytes(filepath, files[filepath])

\* os.path.getatime(filepath)
getatime(filepath) == files[filepath].atime

\* the orders in which os.walk can hand out the files of a directory tree
WalkOrders(paths) ==
    {seq \in [1..Cardinality(paths) -> paths] :
        \A i, j \in DOMAIN seq : i # j => seq[i] # seq[j]}

RECURSIVE SumSizes(_)
SumSizes(list) ==
    IF list = <<>> THEN 0 ELSE list[1][2] + SumSizes(Tail(list))

\* a list that is left in the order of the walk
SortByAccessed_Unsorted(list) == list

RECURSIVE SortByAccessed(_)
\* line 105: files.sort(key=lambda x: x[2]): ascending, and stable
SortByAccessed(list) ==
    IF list = <<>> THEN <<>>
    ELSE LET n == Len(list)
             init == SortByAccessed(SubSeq(list, 1, n - 1))
             x == list[n]
             k == Cardinality({i \in DOMAIN init : init[i][3] <= x[3]})
         IN SubSeq(init, 1, k) \o <<x>> \o SubSeq(init, k + 1, Len(init))

EvUnchanged ==
    UNCHANGED <<jqvars, rlvars, cache_lock, cr_pc, cr_image, cr_results, cr_ret,
                gc_pc, gc_hash, gc_results, gc_ret, max_cache_size, janvars,
                anvars>>

\* lines 90-100: every file under static_dir with its size and access time
EvWalk ==
    /\ ev_pc = "walk"
    /\ \E order \in WalkOrders(DOMAIN files) :
          /\ ev_files' = [i \in DOMAIN order |->
                            <<order[i], getsize(order[i]), getatime(order[i])>>]
          /\ total_size' = SumSizes(ev_files')
    /\ ev_pc' = "check"
    /\ ev_before' = files
    /\ ev_removed' = <<>>
    /\ ev_failed' = {}
    /\ UNCHANGED <<files, fresh, gc_ctx, gc_obs, ev_i>>
    /\ EvUnchanged

\* lines 103-105: if total_size > self.max_cache_size: files.sort(...)
EvCheck ==
    /\ ev_pc = "check"
    /\ IF total_size > max_cache_size
          THEN /\ ev_files' = SortByAccessed(ev_files)
               /\ ev_i' = 1
               /\ ev_pc' = "for"
          ELSE /\ ev_pc' = "wait"
               /\ UNCHANGED <<ev_files, ev_i>>
    /\ UNCHANGED <<files, fresh, gc_ctx, gc_obs, total_size, ev_before, ev_removed,
                   ev_failed>>
    /\ EvUnchanged

\* lines 108-110: the next file of the list, unless the list is used up or
\* total_size <= self.max_cache_size
EvFor ==
    /\ ev_pc = "for"
    /\ ev_pc' = IF ev_i > Len(ev_files) \/ total_size <= max_cache_size
                   THEN "wait" ELSE "remove"
    /\ UNCHANGED <<files, fresh, gc_ctx, gc_obs, ev_files, total_size, ev_i,
                   ev_before, ev_removed, ev_failed>>
    /\ EvUnchanged

\* lines 113-114: os.remove(filepath); total_size -= size
EvRemove ==
    /\ ev_pc = "remove"
    /\ Exists(ev_files[ev_i][1])
    /\ files' = DictPop(files, ev_files[ev_i][1])
    /\ WriteBegins(ev_files[ev_i][1][2])
    /\ total_size' = total_size - ev_files[ev_i][2]
    /\ ev_removed' = Append(ev_removed, ev_files[ev_i])
    /\ ev_i' = ev_i + 1
    /\ ev_pc' = "for"
    /\ UNCHANGED <<ev_files, ev_before, ev_failed>>
    /\ EvUnchanged

\* lines 113, 115-116: os.remove raised; except: continue
EvRemoveFails ==
    /\ ev_pc = "remove"
    /\ ev_failed' = ev_failed \cup {ev_files[ev_i][1]}
    /\ ev_i' = ev_i + 1
    /\ ev_pc' = "for"
    /\ UNCHANGED <<files, fresh, gc_ctx, gc_obs, ev_files, total_size, ev_before,
                   ev_removed>>
    /\ EvUnchanged

\* line 122: threading.Event().wait(3600), and the next pass
EvWait ==
    /\ ev_pc = "wait"
    /\ ev_pc' = "walk"
    /\ UNCHANGED <<files, fresh, gc_ctx, gc_obs, ev_files, total_size, ev_i,
                   ev_before, ev_removed, ev_failed>>
    /\ EvUnchanged

CleanupOldFiles ==
    \/ EvWalk
    \/ EvCheck
    \/ EvFor
    \/ EvRemove
    \/ EvRemoveFails
    \/ EvWait

(***************************************************************************)
(* Cache directories a StaticProcessor can find when it is constructed:    *)
(* blobs that cache_result wrote in an earlier run, each last accessed at  *)
(* some time before the start.                                             *)
(***************************************************************************)
StoredBlobs ==
    [p \in {ImagePath(get_file_hash(ImageA)), ImagePath(get_file_hash(ImageB)),
            ResultPath(get_file_hash(ImageA)), ResultPath(get_file_hash(ImageB))} |->
        IF p = ImagePath(get_file_hash(ImageA)) THEN JpegEncode(ImageA)
        ELSE IF p = ImagePath(get_file_hash(ImageB)) THEN JpegEncode(ImageB)
        ELSE IF p = ResultPath(get_file_hash(ImageA)) THEN JsonEncode(ResultsAi)
        ELSE JsonEncode(ResultsCli)]

CacheDirs ==
    UNION {[paths -> (0 - MaxClock)..0] : paths \in SUBSET DOMAIN StoredBlobs}

CacheDir(accessed) ==
    [p \in DOMAIN accessed |->
        [data |-> StoredBlobs[p], complete |-> TRUE, atime |-> accessed[p]]]

(***************************************************************************)
(* Specifications                                                          *)
(***************************************************************************)
Init == JobQueueInit /\ RateLimiterInit /\ StaticProcessorInit /\ AnalyzeInit

\* the JobQueue with its worker, submitters and pollers
Next ==
    \/ Submit
    \/ SetStop
    \/ Worker
    \/ Poll

Spec == Init /\ [][Next]_vars

\* the JobQueue with its worker and submitters
NextQueue ==
    \/ Submit
    \/ SetStop
    \/ Worker

SpecQueue == Init /\ [][NextQueue]_vars

\* the worker thread keeps running; every Analyzer call returns or raises
SpecQueueFair == SpecQueue /\ WF_vars(Worker)

\* the RateLimiter with its callers and the clock
NextRate ==
    \/ Tick
    \/ IsAllowed

SpecRate == Init /\ [][NextRate]_vars

\* the /analyze requests of one client in one request handler, with the
\* RateLimiter and the clock; uploads of other clients; the JobQueue's worker
\* with an Analyzer call that outlasts the run
NextAnalyze ==
    \/ LimiterIdle /\ Tick
    \/ Analyze /\ an_pc'["t2"] = "idle" /\ an_client'["t1"] # "c2"
    \/ LimiterIdle /\ Worker /\ worker_pc' # "finally"
    \/ LimiterIdle /\ next_job + Cardinality(Uploading) < MaxJobs /\ Submit

SpecAnalyze == Init /\ [][NextAnalyze]_vars

\* the cache with its storing and reading threads
NextCache ==
    \/ CacheResult
    \/ GetCachedResult

SpecCache == Init /\ [][NextCache]_vars

\* the cache with one storing thread, its reading thread, and blobs that
\* are deleted
NextCacheFs ==
    \/ CacheResult /\ \A w \in Storers \ {"s1"} : cr_pc'[w] = "idle"
    \/ GetCachedResult
    \/ DeleteBlob

SpecCacheFs == Init /\ [][NextCacheFs]_vars

\* the upload directory: requests that save files, the worker that removes
\* them, the clock, and the cleanup thread of __main__
NextJanitor ==
    \/ Tick
    \/ ~SweepRunning /\ Submit
    \/ ~SweepRunning /\ Worker
    \/ cleanup_old_files

SpecJanitor == Init /\ [][NextJanitor]_vars

\* time passes, and the cleanup thread runs while it has something to do
SpecJanitorFair == SpecJanitor /\ WF_vars(Tick) /\ WF_vars(cleanup_old_files)

\* the cleanup thread of a StaticProcessor constructed on a cache directory
\* of an earlier run
InitEvict ==
    /\ JobQueueInit
    /\ RateLimiterInit
    /\ AnalyzeInit
    /\ \E accessed \in CacheDirs, cache_size \in 0..MaxCacheSize :
          StaticProcessorStart(CacheDir(accessed), cache_size)

NextEvict == CleanupOldFiles

SpecEvict == InitEvict /\ [][NextEvict]_vars

(***************************************************************************)
(* Properties of the JobQueue                                              *)
(***************************************************************************)
IsPrefix(a, b) == Len(a) <= Len(b) /\ \A i \in DOMAIN a : a[i] = b[i]

\* C1: once a get_result call has returned a job's terminal record, every
\* get_result call made afterwards for that id returns not_found.
C1_DeliveredThenNotFound ==
    \A p \in Pollers :
        (poll_pc[p] = "idle" /\ poll_ctx[p] = "delivered") => poll_ret[p] = NotFound

\* job 1 failed and its error record was handed to one poll; a later poll
\* for job 1, made while the worker analyzes job 2, returned not_found
C1_Witness ==
    /\ stored[1] = "error"
    /\ 1 \in delivered
    /\ worker_pc = "analyze"
    /\ worker_job[1] = 2
    /\ \E p \in Pollers :
          /\ poll_pc[p] = "idle"
          /\ poll_job[p] = 1
          /\ poll_ctx[p] = "delivered"
          /\ poll_ret[p] = NotFound

\* C2: a poll for an id that add_job accepted, and whose terminal record no
\* poll has returned yet, never returns not_found.
C2_AcceptedNeverNotFound ==
    \A p \in Pollers :
        (/\ poll_pc[p] = "idle"
         /\ poll_ctx[p] \in {"accepted", "dequeued"}
         /\ poll_job[p] \notin delivered)
            => poll_ret[p] # NotFound

\* C3: add_job returns at once; it accepts the job (appending it to the
\* queue) iff fewer than max_size jobs are waiting, and otherwise leaves the
\* queue alone; so at most max_size jobs are ever waiting.
C3_AddJobBounded ==
    /\ [](Len(queue) <= max_size)
    /\ [][next_job' # next_job =>
            /\ (enqueued' # enqueued) <=> (Len(queue) < max_size)
            /\ enqueued' # enqueued =>
                 /\ queue' = Append(queue, <<next_job', PathOf(next_job')>>)
                 /\ enqueued' = Append(enqueued, next_job')
            /\ enqueued' = enqueued => queue' = queue]_vars

\* max_size = 1: job 1 accepted, job 2 rejected while 1 was waiting, job 3
\* accepted while the worker analyzes job 1
C3_Witness ==
    /\ max_size = 1
    /\ enqueued = <<1, 3>>
    /\ worker_pc = "analyze"
    /\ worker_job[1] = 1
    /\ Len(queue) = 1

\* C4: while the stop flag is not set, every accepted job gets a terminal
\* record, completed if the Analyzer returned and error if it raised,
\* whatever happened to the jobs before it.
C4_EveryJobTerminates ==
    /\ \A j \in JobIds : (j \in Range(enqueued)) ~> (j \in DOMAIN results \/ _stop)
    /\ [](\A j \in DOMAIN results :
            /\ outcome[j] \in {"returned", "raised"}
            /\ outcome[j] = "returned" => results[j] = Completed(PathOf(j))
            /\ outcome[j] = "raised" => results[j] = Errored(PathOf(j)))

\* a job that raised, and a later job that completed
C4_Witness ==
    /\ ~_stop
    /\ \E i, j \in DOMAIN results :
          /\ i < j
          /\ results[i].status = "error"
          /\ results[j].status = "completed"

\* C5: the worker dequeues jobs in the order add_job accepted them, and
\* when it dequeues a job every job dequeued before has its terminal record.
C5_Fifo ==
    /\ IsPrefix(dequeued, enqueued)
    /\ \A i \in 1..(Len(dequeued) - 1) : stored[dequeued[i]] # "none"

\* two jobs waited together; the second one is now being analyzed
C5_Witness ==
    /\ max_size = 2
    /\ Len(dequeued) = 2
    /\ worker_pc = "analyze"
    /\ queue # <<>>

\* C8: when the worker is back at the top of its loop, every job it has
\* dequeued is out of the in-progress set and its input file is gone,
\* unless deleting that file failed.
C8_InputReleased ==
    worker_pc \in {"while", "get", "exited"} =>
        \A j \in Range(dequeued) :
            /\ j \notin processing
            /\ PathOf(j) \notin uploads \/ PathOf(j) \in rm_failed

\* the Analyzer raised on a job, and the job's file was deleted
C8_Witness ==
    /\ worker_pc = "while"
    /\ \E j \in Range(dequeued) :
          /\ outcome[j] = "raised"
          /\ PathOf(j) \notin uploads
          /\ PathOf(j) \notin rm_failed

\* C9: once _stop is set the worker leaves its loop, also when nothing is
\* submitted any more, and every job it had dequeued has a terminal record
\* when it leaves.
C9_Shutdown ==
    /\ _stop ~> (worker_pc = "exited")
    /\ [](worker_pc = "exited" => \A j \in Range(dequeued) : stored[j] # "none")

\* the worker finished the job it held and left, with jobs still waiting
C9_Witness ==
    /\ worker_pc = "exited"
    /\ dequeued # <<>>
    /\ stored[dequeued[Len(dequeued)]] # "none"
    /\ queue # <<>>

(***************************************************************************)
(* Properties of the RateLimiter                                           *)
(***************************************************************************)
\* admissions of client c recorded less than time_window before now
RecentAdmissions(c, now) ==
    Cardinality({i \in DOMAIN admitted[c] : now - admitted[c][i] < time_window})

\* C6: a call returns True, and appends its now to the client's list, iff
\* fewer than max_requests admissions of the client were recorded less than
\* time_window ago; otherwise it returns False and appends nothing.
C6_SlidingWindow ==
    [][\A t \in Callers :
        (rl_pc[t] = "check" /\ rl_pc'[t] = "idle") =>
            LET c == rl_client[t]
                now == rl_now[t]
            IN /\ rl_ret'[t] \in {"allowed", "denied"}
               /\ (rl_ret'[t] = "allowed") <=> (RecentAdmissions(c, now) < max_requests)
               /\ rl_ret'[t] = "allowed" => requests'[c] = Append(requests[c], now)
               /\ rl_ret'[t] = "denied" => requests'[c] = requests[c]]_vars

\* max_requests admissions at one instant, a denial, and one more admission
\* a full window later
C6_Witness ==
    \E c \in Clients :
        /\ Len(admitted[c]) = max_requests + 1
        /\ admitted[c][max_requests] = admitted[c][1]
        /\ admitted[c][max_requests + 1] >= admitted[c][1] + time_window
        /\ \E t \in Callers : rl_client[t] = c /\ rl_ret[t] = "denied"

\* no more than max_requests admissions of a client in any span shorter
\* than time_window
WindowBound ==
    \A c \in Clients : \A i \in DOMAIN admitted[c] :
        Cardinality({k \in DOMAIN admitted[c] :
                        /\ admitted[c][i] <= admitted[c][k]
                        /\ admitted[c][k] < admitted[c][i] + time_window})
            <= max_requests

\* C7: calls exclude one another from lock to return, so no client is
\* admitted more than max_requests times in a span shorter than
\* time_window, and a client's list is changed only by a call for that client.
C7_ConcurrentSafe ==
    /\ [](WindowBound)
    /\ [](Cardinality({t \in Callers : rl_pc[t] # "idle"}) <= 1)
    /\ [][\A c \in Clients :
            (c \in DOMAIN requests' /\ (c \notin DOMAIN requests \/ requests'[c] # requests[c]))
                => (lock \in Callers /\ rl_client[lock] = c)]_vars

\* a call for a client at its limit holds the lock while the other client
\* is at its limit too
C7_Witness ==
    /\ lock \in Callers
    /\ rl_pc[lock] = "check"
    /\ Len(requests[rl_client[lock]]) = max_requests
    /\ \E d \in Clients \ {rl_client[lock]} : Len(admitted[d]) = max_requests

(***************************************************************************)
(* Properties of the cache                                                 *)
(***************************************************************************)
RECURSIVE JsonNative(_)
\* a value made of str, int, list and string-keyed dict only
JsonNative(v) ==
    /\ v.t \in {"str", "int", "list", "dict"}
    /\ \A i \in DOMAIN v.xs : JsonNative(v.xs[i])

\* a lookup of a hash whose entry a cache_result call stored and returned,
\* with no write for the hash begun since and no failure in the lookup
CleanLookups ==
    {r \in Readers : gc_pc[r] = "idle" /\ gc_ctx[r] = "clean" /\ gc_hash[r] \in DOMAIN fresh}

\* C10 as claimed: such a lookup returns a hit whose results equal the
\* stored results and whose image is the one stored for the hash.
C10_RoundTripEqual ==
    \A r \in CleanLookups :
        gc_ret[r] = Hit(fresh[gc_hash[r]].results, ImagePath(gc_hash[r]))

\* C10, amended: such a lookup returns a hit whose results are the stored
\* results as json.load gives them back (equal to the stored results when
\* these hold no tuples) and whose image is the JPEG stored for the hash;
\* the hash depends on the raw bytes only, and the one entry of a hash holds
\* what was stored last.
C10_RoundTripJson ==
    /\ \A r \in CleanLookups :
          LET h == gc_hash[r]
          IN /\ gc_ret[r] = Hit(JsonDecode(JsonEncode(fresh[h].results)), ImagePath(h))
             /\ JsonNative(fresh[h].results) => gc_ret[r].results = fresh[h].results
    /\ \A h \in DOMAIN fresh :
          /\ h = Md5Hex(fresh[h].image.pixels)
          /\ Exists(ImagePath(h)) /\ Exists(ResultPath(h))
          /\ files[ImagePath(h)].complete
          /\ files[ImagePath(h)].data = JpegEncode(fresh[h].image)
          /\ files[ResultPath(h)].complete
          /\ files[ResultPath(h)].data = JsonEncode(fresh[h].results)

\* results holding a tuple were stored with ImageA2, under the hash ImageA
\* has too; the lookup returns a hit with the tuple as a list
C10_Witness ==
    \E r \in CleanLookups :
        /\ gc_ret[r].status = "hit"
        /\ fresh[gc_hash[r]].image = ImageA2
        /\ fresh[gc_hash[r]].results = ResultsCli
        /\ gc_ret[r].results # ResultsCli
        /\ \E w \in Storers : cr_ret[w] = Stored(gc_hash[r])

\* C11: a lookup returns a hit only if the image blob is present when it
\* returns, and, when no blob of the hash is written or deleted during the
\* call, only if both blobs were present at the call; such a call made while
\* exactly one of the two blobs is present returns None.
C11_HalfPairIsMiss ==
    /\ [](\A r \in Readers :
            (gc_pc[r] = "idle" /\ gc_obs[r].quiet) =>
                /\ gc_ret[r].status = "hit" => gc_obs[r].seen = "both"
                /\ gc_obs[r].seen \in {"result", "image"} => gc_ret[r] = None)
    /\ [][\A r \in Readers :
            (gc_pc[r] # "idle" /\ gc_pc'[r] = "idle" /\ gc_ret'[r].status = "hit")
                => Exists(ImagePath(gc_hash[r]))]_vars

\* an entry was stored, its image blob was deleted, and a lookup made with
\* the whole result blob alone in place returned None
C11_Witness ==
    \E r \in Readers :
        /\ gc_pc[r] = "idle"
        /\ gc_obs[r] = [seen |-> "result", quiet |-> TRUE]
        /\ gc_ret[r] = None
        /\ \E w \in Storers : cr_ret[w] = Stored(gc_hash[r])
        /\ Exists(ResultPath(gc_hash[r]))
        /\ files[ResultPath(gc_hash[r])].complete
        /\ ~Exists(ImagePath(gc_hash[r]))

\* C12: whatever cache_result is doing, a lookup that returns a hit returns
\* it for a pair of blobs that both are completely written.
C12_NoCorruptHit ==
    [][\A r \in Readers :
        (gc_pc[r] # "idle" /\ gc_pc'[r] = "idle" /\ gc_ret'[r].status = "hit")
            => /\ files[ImagePath(gc_hash[r])].complete
               /\ Exists(ResultPath(gc_hash[r])) => files[ResultPath(gc_hash[r])].complete]_vars

\* C14: a lookup that has read the result blob, with both blobs in place,
\* returns the hit even when os.utime fails on one of them.
C14_RefreshBestEffort ==
    [][\A r \in Readers :
        (/\ gc_pc[r] \in {"utime_result", "utime_image"}
         /\ gc_pc'[r] = "idle"
         /\ Exists(ResultPath(gc_hash[r]))
         /\ Exists(ImagePath(gc_hash[r])))
            => gc_ret'[r].status = "hit"]_vars

\* the threads inside the with block of cache_result
Writing == {w \in Storers : cr_pc[w] # "idle"}

\* C18: at most one cache_result call at a time is between the start of its
\* image-blob write and the end of its result-blob write, it holds the
\* lock, only it changes the contents of a blob, and when a call returns a
\* hash both blobs of that hash hold what that call wrote, whole.
C18_WritesExclusive ==
    /\ [](Cardinality(Writing) <= 1 /\ \A w \in Writing : cache_lock = w)
    /\ [][\A path \in DOMAIN files' :
            (path \notin DOMAIN files
               \/ files'[path].data # files[path].data
               \/ files'[path].complete # files[path].complete)
              => \E w \in Writing :
                    /\ cache_lock = w
                    /\ path[2] = get_file_hash(cr_image[w])
                    /\ cr_pc'[w] # cr_pc[w]]_vars
    /\ [][\A w \in Storers :
            (cr_pc[w] = "dump" /\ cr_ret'[w].status = "stored")
              => LET h == cr_ret'[w].file_hash
                 IN /\ files'[ImagePath(h)] =
                         [data |-> JpegEncode(cr_image[w]), complete |-> TRUE,
                          atime |-> files'[ImagePath(h)].atime]
                    /\ files'[ResultPath(h)] =
                         [data |-> JsonEncode(cr_results[w]), complete |-> TRUE,
                          atime |-> files'[ResultPath(h)].atime]]_vars

\* both threads stored the same image, the one with other results last: the
\* entry holds the results of the call that came last
C18_Witness ==
    /\ Writing = {}
    /\ cr_ret["s1"] = Stored(get_file_hash(ImageA))
    /\ cr_ret["s2"] = Stored(get_file_hash(ImageA))
    /\ fresh[get_file_hash(ImageA)].results = ResultsCli
    /\ files[ResultPath(get_file_hash(ImageA))].data = JsonEncode(ResultsCli)

(***************************************************************************)
(* Properties of the cleanup pass                                          *)
(***************************************************************************)
RECURSIVE TotalBytes(_)
\* the summed size of the files of a directory
TotalBytes(dir) ==
    IF DOMAIN dir = {} THEN 0
    ELSE LET p == CHOOSE q \in DOMAIN dir : TRUE
         IN FileBytes(p, dir[p]) + TotalBytes(DictPop(dir, p))

RemovedPaths == {ev_removed[i][1] : i \in DOMAIN ev_removed}

\* C13: a finished pass has deleted nothing if the directory was within
\* max_cache_size; otherwise it has deleted files in ascending order of
\* access time, none after the total came within max_cache_size; and when no
\* os.remove failed the total left is at most max_cache_size and no file
\* left was accessed strictly before a deleted one.
C13_EvictOldestUntilWithin ==
    ev_pc = "wait" =>
        /\ DOMAIN files = DOMAIN ev_before \ RemovedPaths
        /\ TotalBytes(ev_before) <= max_cache_size => files = ev_before
        /\ \A i, j \in DOMAIN ev_removed :
              i < j => ev_before[ev_removed[i][1]].atime <= ev_before[ev_removed[j][1]].atime
        /\ ev_removed # <<>> =>
              TotalBytes(files) + ev_removed[Len(ev_removed)][2] > max_cache_size
        /\ ev_failed = {} =>
              /\ TotalBytes(files) <= max_cache_size
              /\ \A kept \in DOMAIN files, gone \in RemovedPaths :
                    ~(ev_before[kept].atime < ev_before[gone].atime)

\* two image blobs of 2 bytes each, the one of ImageA accessed before the one
\* of ImageB, and a budget of 3 bytes: the pass removed the first and kept
\* the second
C13_Witness ==
    /\ ev_pc = "wait"
    /\ max_cache_size = 3
    /\ DOMAIN ev_before = {ImagePath(get_file_hash(ImageA)), ImagePath(get_file_hash(ImageB))}
    /\ ev_before[ImagePath(get_file_hash(ImageA))].atime
          < ev_before[ImagePath(get_file_hash(ImageB))].atime
    /\ ev_failed = {}
    /\ DOMAIN files = {ImagePath(get_file_hash(ImageB))}

(***************************************************************************)
(* Properties of cleanup_old_files                                         *)
(***************************************************************************)
\* C15: a sweep that ran to its end has removed every listed file older
\* than the retention window, counted from the sweep's current_time, and has
\* removed no listed file younger than that.
C15_SweepByAge ==
    (jan_pc = "returned" /\ jan_failed = {}) =>
        \A f \in jan_listed :
            /\ ctime[f] < current_time - Retention => f \in jan_removed /\ f \notin uploads
            /\ ctime[f] > current_time - Retention => f \notin jan_removed

\* the sweep listed two files, removed the old one and left the newer one,
\* which still waits in the queue
C15_Witness ==
    /\ jan_pc = "returned"
    /\ jan_failed = {}
    /\ jan_listed = {PathOf(1), PathOf(2)}
    /\ jan_removed = {PathOf(1)}
    /\ ctime[PathOf(2)] > current_time - Retention
    /\ PathOf(2) \in uploads

\* C16: when the sweep is over, every listed old file other than the ones
\* whose deletion failed has been deleted.
C16_SweepSkipsFailures ==
    jan_pc = "returned" =>
        \A f \in jan_listed \ jan_failed :
            ctime[f] < current_time - Retention => f \notin uploads

\* C17: a file that is in the upload directory and older than the retention
\* window is deleted at some time.
C17_SweepRepeats ==
    \A f \in {PathOf(j) : j \in JobIds} :
        (f \in uploads /\ ctime[f] < clock - Retention) ~> (f \notin uploads)

(***************************************************************************)
(* Properties of get_result against the worker and against itself          *)
(***************************************************************************)
\* C19: a poll for a job that the worker had dequeued when the poll was
\* called, and whose record no poll had been given, returns 'processing' or
\* the job's terminal record.
C19_PollSeesDequeued ==
    \A p \in Pollers :
        (poll_pc[p] = "idle" /\ poll_ctx[p] = "dequeued") =>
            \/ poll_ret[p] = Processing
            \/ poll_ret[p] \in {Completed(PathOf(poll_job[p])), Errored(PathOf(poll_job[p]))}

\* one poll for job 1 returned 'processing' while the Analyzer ran, the other
\* was given the completed record afterwards
C19_Witness ==
    \E p, q \in Pollers :
        /\ poll_pc[p] = "idle" /\ poll_pc[q] = "idle"
        /\ poll_job[p] = 1 /\ poll_job[q] = 1
        /\ poll_ctx[p] = "dequeued" /\ poll_ctx[q] = "dequeued"
        /\ poll_ret[p] = Processing
        /\ poll_ret[q] = Completed(PathOf(1))

\* C20: of the get_result calls for a job whose terminal record is stored,
\* one is given the record and no other one is; no call ends in an exception.
C20_DeliveredOnce ==
    /\ [](\A p \in Pollers : poll_ret[p] # KeyError)
    /\ [](\A p, q \in Pollers :
            (/\ p # q
             /\ poll_job[p] = poll_job[q]
             /\ poll_ret[p] \in {Completed(PathOf(poll_job[p])), Errored(PathOf(poll_job[p]))})
                => poll_ret[q] \notin {Completed(PathOf(poll_job[q])), Errored(PathOf(poll_job[q]))})
    /\ [][\A p \in Pollers :
            (poll_pc[p] = "pop" /\ poll_pc'[p] = "idle")
                => /\ poll_job[p] \notin delivered
                   /\ poll_ret'[p] = results[poll_job[p]]]_vars

\* both request handlers polled job 2 after its error record was stored: one
\* was given the record, the other one not_found
C20_Witness ==
    \E p, q \in Pollers :
        /\ poll_pc[p] = "idle" /\ poll_pc[q] = "idle"
        /\ poll_job[p] = 2 /\ poll_job[q] = 2
        /\ poll_ctx[p] = "dequeued"
        /\ poll_ret[p] = Errored(PathOf(2))
        /\ poll_ctx[q] = "delivered"
        /\ poll_ret[q] = NotFound

(***************************************************************************)
(* The life of a job in the JobQueue                                       *)
(***************************************************************************)
InQueue(j) == \E i \in DOMAIN queue : queue[i][1] = j

\* where an accepted job is, read from the queue, the worker and the tables:
\* 1 queued, 2 with the worker, 3 terminal record stored, 4 removed
Stage(j) ==
    IF j \in DOMAIN results THEN 3
    ELSE IF j \in processing \/ worker_job[1] = j THEN 2
    ELSE IF InQueue(j) THEN 1
    ELSE 4

\* C21: at most one job id is in self.processing; a job is handed to the
\* Analyzer at most once; an accepted job only moves forward along queued,
\* processing, completed or error, removed; once its terminal record is
\* stored a job is never in the queue again, never added to self.processing
\* again, and its record is never replaced by a different one.
C21_SingleFlight ==
    /\ [](Cardinality(processing) <= 1)
    /\ [](\A i, k \in DOMAIN dequeued : dequeued[i] = dequeued[k] => i = k)
    /\ [][(worker_pc # "analyze" /\ worker_pc' = "analyze")
            => /\ outcome[worker_job'[1]] = "none"
               /\ stored[worker_job'[1]] = "none"
               /\ worker_job'[1] \notin DOMAIN results]_vars
    /\ [][\A j \in Range(enqueued) : Stage(j)' >= Stage(j)]_vars
    /\ [][\A j \in JobIds :
            stored[j] # "none"
                => /\ ~InQueue(j)'
                   /\ j \in processing' => j \in processing
                   /\ stored'[j] = stored[j]
                   /\ (j \in DOMAIN results /\ j \in DOMAIN results')
                         => results'[j] = results[j]]_vars

\* job 1 was completed and its record given to a poll, the error record of
\* job 2 is stored, and job 3 is with the Analyzer
C21_Witness ==
    /\ 1 \in delivered
    /\ stored[1] = "completed"
    /\ 2 \in DOMAIN results
    /\ results[2] = Errored(PathOf(2))
    /\ processing = {3}
    /\ worker_pc = "analyze"

(***************************************************************************)
(* Cache entries under _cleanup_old_files                                  *)
(***************************************************************************)
\* every hash has both of its blobs in the directory, or neither
WholeEntries(dir) ==
    \A h \in Hashes : ImagePath(h) \in DOMAIN dir <=> ResultPath(h) \in DOMAIN dir

\* C22: when every hash had both blobs or neither as a pass began and no
\* os.remove failed in it, every hash has both blobs or neither when the
\* pass has finished.
C22_EvictsWholeEntries ==
    (ev_pc = "wait" /\ ev_failed = {} /\ WholeEntries(ev_before))
        => WholeEntries(files)

(***************************************************************************)
(* The edge of the RateLimiter's window                                    *)
(***************************************************************************)
\* the positions of list ts that hold a timestamp for which keep holds
Kept(ts, keep(_)) == {i \in DOMAIN ts : keep(ts[i])}

\* C23 as stated: the prune of a call drops only timestamps older than
\* now - time_window, so a timestamp exactly time_window old stays in the
\* client's list.
C23_BoundaryRetained ==
    [][\A t \in Callers :
        (rl_pc[t] = "prune" /\ rl_pc'[t] = "check") =>
            LET c == rl_client[t]
                now == rl_now[t]
            IN \A i \in DOMAIN requests[c] :
                  requests[c][i] >= now - time_window
                      => requests[c][i] \in Range(requests'[c])]_vars

\* C23: the prune of a call keeps the timestamps younger than time_window
\* and drops every timestamp that is time_window old or older;
\* a client whose admissions all are at least time_window old is admitted.
C23_BoundaryPruned ==
    /\ [][\A t \in Callers :
            (rl_pc[t] = "prune" /\ rl_pc'[t] = "check") =>
                LET c == rl_client[t]
                    now == rl_now[t]
                    young(x) == x > now - time_window
                IN /\ Len(requests'[c]) = Cardinality(Kept(requests[c], young))
                   /\ \A x \in Range(requests'[c]) : young(x)
                   /\ \A x \in Range(requests[c]) :
                         young(x) => x \in Range(requests'[c])]_vars
    /\ [][\A t \in Callers :
            (/\ rl_pc[t] = "check" /\ rl_pc'[t] = "idle"
             /\ \A i \in DOMAIN admitted[rl_client[t]] :
                   admitted[rl_client[t]][i] <= rl_now[t] - time_window)
                => rl_ret'[t] = "allowed"]_vars

\* a client admitted max_requests times at one instant is admitted again
\* exactly time_window later, and the earlier timestamps are gone from its list
C23_Witness ==
    \E c \in Clients :
        /\ Len(admitted[c]) = max_requests + 1
        /\ admitted[c][max_requests] = admitted[c][1]
        /\ admitted[c][max_requests + 1] = admitted[c][1] + time_window
        /\ c \in DOMAIN requests
        /\ requests[c] = <<admitted[c][1] + time_window>>

(***************************************************************************)
(* The /analyze route and the RateLimiter                                  *)
(***************************************************************************)
\* how often x is in list ts
Count(ts, x) == Cardinality({i \in DOMAIN ts : ts[i] = x})

\* the handlers that serve a request of client c and are past the admission
\* check
PastAdmission(c) ==
    {t \in Callers :
        /\ an_client[t] = c
        /\ \/ an_pc[t] \in {"files", "save"}
           \/ an_pc[t] = "is_allowed" /\ rl_pc[t] = "idle" /\ rl_ret[t] = "allowed"}

\* C24: every request that passed is_allowed has put one timestamp into the
\* client's list, whether it was then answered 200, 400 or 503; a 400 or 503
\* answer leaves the lists and the queue as they are; a timestamp leaves a
\* list only in the prune of a call for that client, at least time_window old.
C24_SlotConsumedAtAdmission ==
    /\ [](\A c \in Clients :
            Len(admitted[c]) = Cardinality(an_log[c].jobs) + an_log[c].invalid
                                  + an_log[c].busy + Cardinality(PastAdmission(c)))
    /\ [](\A c \in Clients : \A x \in Range(admitted[c]) :
            clock - x < time_window
                => c \in DOMAIN requests /\ Count(requests[c], x) = Count(admitted[c], x))
    /\ [](\A c \in Clients : an_log[c].jobs \subseteq Range(enqueued))
    /\ [][\A t \in Callers :
            (an_pc[t] \in {"files", "save"} /\ an_resp'[t] \in {400, 503})
                => requests' = requests /\ queue' = queue /\ enqueued' = enqueued]_vars
    /\ [][\A c \in DOMAIN requests : \A x \in Range(requests[c]) :
            Count(requests'[c], x) < Count(requests[c], x)
                => \E t \in Callers : /\ rl_pc[t] = "prune"
                                      /\ rl_client[t] = c
                                      /\ rl_now[t] - x >= time_window]_vars

\* a client was answered 429 after max_requests requests, of which at least
\* one was answered 400 and one 503, and none was given a job id
C24_Witness ==
    \E c \in Clients :
        /\ an_log[c].limited
        /\ an_log[c].jobs = {}
        /\ an_log[c].invalid >= 1
        /\ an_log[c].busy >= 1
        /\ an_log[c].invalid + an_log[c].busy = max_requests
        /\ \E t \in Callers : an_pc[t] = "idle" /\ an_resp[t] = 429

====
